---- MODULE Spec2Model ----
(***************************************************************************)
(* Climate-drought: dekad calendar (utils.py), polygon masking (utils.py)  *)
(* and the Combined Drought Indicator composition (drought_indices.py).    *)
(*                                                                         *)
(* Dates are the integers YYYYMMDD of the program's 'YYYYMMDD' strings;    *)
(* the order of the integers is the order of the dates.                    *)
(***************************************************************************)
EXTENDS Integers, Sequences, FiniteSets, TLC

VARIABLES
    dk_pc,      \* dekad calendar: "idle" before the call, "done" after
    sdate,      \* dti_dekads: argument sdate
    edate,      \* dti_dekads: argument edate
    dekads,     \* dti_dekads: the returned DatetimeIndex, as a sequence
    mk_pc,      \* polygon mask: "idle" before the call, "done" after
    ds,         \* mask_ds_poly: the dataset passed in (grid and cell values)
    poly,       \* mask_ds_poly: the polygon vertices zip(lons, lats)
    mask_bbox,  \* mask_ds_poly: argument mask_bbox
    rtn,        \* mask_ds_poly: the returned dataset (ok = FALSE for None)
    cc_pc,      \* calc_cdi: "idle" before the call, "done" after
    cc_args,    \* calc_cdi: the arguments <<spi, sma, fpr>> of one element
    cc_out,     \* calc_cdi: the returned element
    cd_pc,      \* CDI: position in __init__ / process
    args,       \* CDI.args: start_date, end_date, latitude (number of pairs)
    provider,   \* per component, the provider's series of one grid cell
    excluded,   \* per component, whether the polygon mask excludes that cell
    sstype,     \* CDI.sstype
    aa,         \* CDI.aa_spi, aa_sma, aa_fpr: the components' start dates
    time_dekads,\* CDI.time_dekads
    comp_ds,    \* spi.data_ds, sma.data_ds, fpr.data_ds
    ds_reindexed, \* CDI.ds_reindexed
    ds_shifted, \* CDI.ds_shifted
    data_ds,    \* CDI.data_ds
    retriever,  \* per component and year, what the retriever does for that year
    files,      \* per component, GDODroughtIndex.files: the years that were listed
    filepaths,  \* per component, GDODroughtIndex.filepaths: the years downloaded
    comp_df,    \* spi.data_df, sma.data_df, fpr.data_df: the rows of the cell
    data_df,    \* CDI.data_df: the rows of the cell
    reads,      \* per component, how often process() has read the input data
    outfile,    \* the CDI output file: "absent" or "written"
    ec_pc,      \* ECMWF component: "idle", "done", or "error" when process raised
    ec_in,      \* ECMWF component: the request and the retrieved datasets
    ec_out,     \* ECMWF component: data_ds after process()
    ar_pc,      \* request: "idle", "args", "constructed", or "error" when raised
    ar_in,      \* request: latitude and longitude as given, singleval, product
    ar_out      \* request: the args object, sstype, the components' sstype

dkvars == <<dk_pc, sdate, edate, dekads>>
mkvars == <<mk_pc, ds, poly, mask_bbox, rtn>>
ccvars == <<cc_pc, cc_args, cc_out>>
cdvars == <<cd_pc, args, provider, excluded, sstype, aa, time_dekads, comp_ds,
            ds_reindexed, ds_shifted, data_ds, retriever, files, filepaths,
            comp_df, data_df, reads, outfile>>

ecvars == <<ec_pc, ec_in, ec_out>>
arvars == <<ar_pc, ar_in, ar_out>>

vars == <<dkvars, mkvars, ccvars, cdvars, ecvars, arvars>>

(***************************************************************************)
(* Calendar arithmetic (pandas Timestamp / numpy datetime64[D]).           *)
(***************************************************************************)
Year(n) == n \div 10000
Month(n) == (n \div 100) % 100
Day(n) == n % 100
MkDate(y, m, d) == y * 10000 + m * 100 + d

IsLeap(y) == (y % 4 = 0 /\ y % 100 # 0) \/ y % 400 = 0

DaysInMonth(y, m) ==
    IF m = 2 THEN (IF IsLeap(y) THEN 29 ELSE 28)
    ELSE IF m \in {4, 6, 9, 11} THEN 30 ELSE 31

ValidDate(n) ==
    /\ Month(n) \in 1..12
    /\ Day(n) \in 1..DaysInMonth(Year(n), Month(n))

\* days of the year before the first of month m, in a common year
CumDays == <<0, 31, 59, 90, 120, 151, 181, 212, 243, 273, 304, 334>>

\* days before 1 January of year y (proleptic Gregorian ordinal)
DaysBeforeYear(y) ==
    365 * (y - 1) + (y - 1) \div 4 - (y - 1) \div 100 + (y - 1) \div 400

DaysBeforeMonth(y, m) == CumDays[m] + (IF m > 2 /\ IsLeap(y) THEN 1 ELSE 0)

\* the day count a datetime64[D] holds
Ordinal(n) == DaysBeforeYear(Year(n)) + DaysBeforeMonth(Year(n), Month(n)) + Day(n)

\* timestamp - timedelta(days = k), month by month
RECURSIVE MinusDays(_, _)
MinusDays(n, k) ==
    IF k < Day(n) THEN n - k
    ELSE LET y == IF Month(n) > 1 THEN Year(n) ELSE Year(n) - 1
             m == IF Month(n) > 1 THEN Month(n) - 1 ELSE 12
         IN  MinusDays(MkDate(y, m, DaysInMonth(y, m)), k - Day(n))

\* timestamp + timedelta(days = k), month by month
RECURSIVE PlusDays(_, _)
PlusDays(n, k) ==
    IF Day(n) + k <= DaysInMonth(Year(n), Month(n)) THEN n + k
    ELSE LET y == IF Month(n) < 12 THEN Year(n) ELSE Year(n) + 1
             m == IF Month(n) < 12 THEN Month(n) + 1 ELSE 1
         IN  PlusDays(MkDate(y, m, 1), k - (DaysInMonth(Year(n), Month(n)) - Day(n)) - 1)

\* pd.date_range(s, e, freq='1D'): every day from s to e, both inclusive
date_range(s, e) ==
    [i \in 1..(Ordinal(e) - Ordinal(s) + 1) |-> PlusDays(s, i - 1)]

Range(seq) == {seq[i] : i \in DOMAIN seq}

\* the elements of a set of integers in increasing order
SortedSeq(S) ==
    [i \in 1..Cardinality(S) |->
        CHOOSE x \in S : Cardinality({y \in S : y < x}) = i - 1]

\* np.unique: the sorted unique elements
np_unique(seq) == SortedSeq(Range(seq))

\* np.clip(v, lo, hi)
np_clip(v, lo, hi) == IF v < lo THEN lo ELSE IF v > hi THEN hi ELSE v

(***************************************************************************)
(* utils.py: the dekad calendar.                                           *)
(***************************************************************************)
nearest_dekad(day) == IF day < 11 THEN 1 ELSE (IF day < 21 THEN 11 ELSE 21)

\* sdate_ts.replace(day=utils.nearest_dekad(sdate_ts.day))
assign(n) == MkDate(Year(n), Month(n), nearest_dekad(Day(n)))

\* without the clip day 31 opens a fourth dekad
DekadOffsetNoClip(day) == day - ((day - 1) \div 10) * 10 - 1

\* day // 10 in place of (day-1) // 10: days 10 and 20 fall in the next dekad
DekadOffsetOffByOne(day) == day - np_clip(day \div 10, 0, 2) * 10 - 1

\* d = dti.day - np.clip((dti.day-1) // 10, 0, 2)*10 - 1
DekadOffset(day) == day - np_clip((day - 1) \div 10, 0, 2) * 10 - 1

dti_dekads(s, e) ==
    LET dti == date_range(s, e)
        date == [i \in DOMAIN dti |-> MinusDays(dti[i], DekadOffset(Day(dti[i])))]
    IN  np_unique(date)

(***************************************************************************)
(* utils.py: spatial masks.  Coordinates are counted in quarter grid       *)
(* cells, so a cell of size grid_x by grid_y has its edges at centre -/+ 2.*)
(* A point is <<x, y>> = <<lon, lat>>; a polygon is its vertex sequence.   *)
(***************************************************************************)
NaN == 99999
OUTSIDE_AREA_SELECTION == -99999

grid_x == 4
grid_y == 4

SetMin(S) == CHOOSE x \in S : \A y \in S : x <= y
SetMax(S) == CHOOSE x \in S : \A y \in S : y <= x

\* the edges of a polygon as pairs of consecutive vertices (the ring closes)
PolyEdges(P) == {<<P[i], P[(i % Len(P)) + 1]>> : i \in DOMAIN P}

\* projection of point v on the normal of edge e
Proj(e, v) == (e[1][2] - e[2][2]) * v[1] + (e[2][1] - e[1][1]) * v[2]

ProjSet(e, P) == {Proj(e, P[i]) : i \in DOMAIN P}

\* shapely intersects, for convex polygons: the closed polygons share a point
\* unless the normal of some edge separates them strictly
shp_intersects(P, Q) ==
    ~ \E e \in PolyEdges(P) \cup PolyEdges(Q) :
          \/ SetMax(ProjSet(e, P)) < SetMin(ProjSet(e, Q))
          \/ SetMax(ProjSet(e, Q)) < SetMin(ProjSet(e, P))

\* the interiors share a point unless some edge normal separates them weakly
InteriorsMeet(P, Q) ==
    ~ \E e \in PolyEdges(P) \cup PolyEdges(Q) :
          \/ SetMax(ProjSet(e, P)) <= SetMin(ProjSet(e, Q))
          \/ SetMax(ProjSet(e, Q)) <= SetMin(ProjSet(e, P))

\* every vertex of Q lies in the closed convex polygon P
shp_contains(P, Q) ==
    \A i \in DOMAIN Q : shp_intersects(P, <<Q[i], Q[i], Q[i]>>)

\* shapely overlaps: the interiors meet and neither polygon holds the other
shp_overlaps(P, Q) ==
    InteriorsMeet(P, Q) /\ ~shp_contains(P, Q) /\ ~shp_contains(Q, P)

\* Polygon((tl,tr,br,bl)) around the cell centre x, y
polycell(x, y) ==
    << <<x - grid_x \div 2, y + grid_y \div 2>>,
       <<x + grid_x \div 2, y + grid_y \div 2>>,
       <<x + grid_x \div 2, y - grid_y \div 2>>,
       <<x - grid_x \div 2, y - grid_y \div 2>> >>

\* mask[j,i] = pn.overlaps(pc) or pn.intersects(pc)
CellTest(pn, x, y) ==
    shp_overlaps(pn, polycell(x, y)) \/ shp_intersects(pn, polycell(x, y))

NoDataset == [ok |-> FALSE, lons |-> {}, lats |-> {}, val |-> <<>>, mask |-> <<>>]

\* Dataset.where(cond, other, drop=True): keep the coordinate labels at which
\* cond holds somewhere, then keep a value where cond holds and write other
\* elsewhere
ds_where_drop(d, cond, other) ==
    LET klons == {x \in d.lons : \E y \in d.lats : cond[<<x, y>>]}
        klats == {y \in d.lats : \E x \in d.lons : cond[<<x, y>>]}
    IN  [ok   |-> TRUE,
         lons |-> klons,
         lats |-> klats,
         val  |-> [c \in klons \X klats |-> IF cond[c] THEN d.val[c] ELSE other],
         mask |-> [c \in klons \X klats |-> cond[c]]]

mask_ds_bbox(d, minlon, maxlon, minlat, maxlat) ==
    LET valid == [c \in d.lons \X d.lats |->
                     /\ c[1] >= minlon /\ c[1] <= maxlon
                     /\ c[2] >= minlat /\ c[2] <= maxlat]
    IN  ds_where_drop(d, valid, NaN)

mask_ds_poly(d, pn, other, bbox) ==
    LET plons == {pn[i][1] : i \in DOMAIN pn}
        plats == {pn[i][2] : i \in DOMAIN pn}
        d1 == IF bbox
              THEN mask_ds_bbox(d, SetMin(plons), SetMax(plons), SetMin(plats), SetMax(plats))
              ELSE d
        mask == [c \in d1.lons \X d1.lats |-> CellTest(pn, c[1], c[2])]
    IN  IF \E c \in DOMAIN mask : mask[c]
        THEN ds_where_drop(d1, mask, other)
        ELSE NoDataset

(***************************************************************************)
(* drought_indices.py: the components and the Combined Drought Indicator.  *)
(* A DataArray is [time, val]: the time coordinate and the values of one   *)
(* grid cell, both sequences of the same length.  The component grids hold *)
(* that one cell, so regrid_like coarsens by a factor of 1 and the nearest *)
(* reindex onto the SPI grid changes nothing.                              *)
(***************************************************************************)
\* two pairs taken for more than a bounding box
SSTypeOfPolygonFromTwo(latitude) ==
    IF latitude = 1 THEN "point" ELSE "polygon"

\* DroughtIndex.__init__: point, bbox or polygon by the number of pairs
SSTypeOf(latitude) ==
    IF latitude = 1 THEN "point" ELSE IF latitude = 2 THEN "bbox" ELSE "polygon"

EmptyDA == [time |-> <<>>, val |-> <<>>]

IndexOf(seq, t) == CHOOSE i \in DOMAIN seq : seq[i] = t

\* a missing label takes the value of the last label before it
da_reindex_filling(da, index) ==
    [time |-> index,
     val  |-> [i \in DOMAIN index |->
                  LET prev == {j \in DOMAIN da.time : da.time[j] <= index[i]}
                  IN  IF prev = {} THEN NaN ELSE da.val[SetMax(prev)]]]

\* DataArray.reindex({'time': index}): exact labels, NaN where absent
da_reindex(da, index) ==
    [time |-> index,
     val  |-> [i \in DOMAIN index |->
                  IF index[i] \in Range(da.time)
                  THEN da.val[IndexOf(da.time, index[i])] ELSE NaN]]

\* method='ffill' forgotten
da_reindex_noffill(da, index) == da_reindex(da, index)

\* the last value that is not missing is carried, as a fill of values does
da_reindex_ffill_values(da, index) ==
    [time |-> index,
     val  |-> [i \in DOMAIN index |->
                  LET prev == {j \in DOMAIN da.time :
                                  da.time[j] <= index[i] /\ da.val[j] # NaN}
                  IN  IF prev = {} THEN NaN ELSE da.val[SetMax(prev)]]]

\* DataArray.reindex({'time': index}, method='ffill'): the value at the last
\* label not after the new label, NaN when there is none
da_reindex_ffill(da, index) ==
    [time |-> index,
     val  |-> [i \in DOMAIN index |->
                  LET prev == {j \in DOMAIN da.time : da.time[j] <= index[i]}
                  IN  IF prev = {} THEN NaN ELSE da.val[SetMax(prev)]]]

\* np.roll: the values pushed out at the end come back at the start
da_shift_roll(da, k) ==
    [time |-> da.time,
     val  |-> [i \in DOMAIN da.val |-> da.val[((i - k - 1) % Len(da.val)) + 1]]]

\* DataArray.shift({'time': k})
da_shift(da, k) ==
    [time |-> da.time,
     val  |-> [i \in DOMAIN da.val |-> IF i > k THEN da.val[i - k] ELSE NaN]]

\* the masking step left out
da_where_ne_nothing(da, x) == da

\* da.where(da != x)
da_where_ne(da, x) ==
    [time |-> da.time,
     val  |-> [i \in DOMAIN da.val |-> IF da.val[i] # x THEN da.val[i] ELSE NaN]]

\* utils.regrid_like followed by reindex(method='nearest') onto the SPI grid
regrid_like(da, da_like) == da

\* pd.date_range(s, e, freq='1MS'): the month starts in [s, e]
month_starts(s, e) ==
    SortedSeq({n \in {MkDate(y, m, 1) : y \in Year(s)..Year(e), m \in 1..12} :
                  s <= n /\ n <= e})

\* GDODroughtIndex.load_and_trim: the cell's values (the outside marker when
\* the polygon mask excludes the cell), trimmed to [start_date, end_date]
load_and_trim(prov, excl, st, a) ==
    LET times == SortedSeq({t \in DOMAIN prov : a.start_date <= t /\ t <= a.end_date})
    IN  [time |-> times,
         val  |-> [i \in DOMAIN times |->
                      IF st = "polygon" /\ excl
                      THEN OUTSIDE_AREA_SELECTION ELSE prov[times[i]]]]

SPI_GDO_process(prov, excl, st, a) ==
    da_reindex(load_and_trim(prov, excl, st, a), month_starts(a.start_date, a.end_date))

SMA_GDO_process(prov, excl, st, a) ==
    da_reindex(load_and_trim(prov, excl, st, a), dti_dekads(a.start_date, a.end_date))

FPAR_GDO_process(prov, excl, st, a) ==
    da_reindex(load_and_trim(prov, excl, st, a), dti_dekads(a.start_date, a.end_date))

\* component values are counted in tenths: the threshold -1 is -10
MinusOne == -10

\* x < -1 on floats: False for NaN
LtMinusOne(x) == x # NaN /\ x < MinusOne

isnan(x) == x = NaN

\* <= in place of <
calc_cdi_nonstrict(spi, sma, fpr) ==
    LET spi_ == spi # NaN /\ spi <= MinusOne
        sma_ == sma # NaN /\ sma <= MinusOne
        fpr_ == fpr # NaN /\ fpr <= MinusOne
    IN  IF isnan(spi) \/ isnan(sma) \/ isnan(fpr) THEN NaN
        ELSE IF spi_ /\ sma_ /\ fpr_ THEN 4
        ELSE IF spi_ /\ fpr_ THEN 3
        ELSE IF spi_ /\ sma_ THEN 2
        ELSE IF spi_ THEN 1 ELSE 0

\* CDI.process.calc_cdi on one element: the assignments in program order
calc_cdi(spi, sma, fpr) ==
    LET spi_ == LtMinusOne(spi)
        sma_ == LtMinusOne(sma)
        fpr_ == LtMinusOne(fpr)
        c0 == NaN
        c1 == IF ~spi_ THEN 0 ELSE c0
        c2 == IF spi_ THEN 1 ELSE c1
        c3 == IF spi_ /\ sma_ THEN 2 ELSE c2
        c4 == IF spi_ /\ fpr_ THEN 3 ELSE c3
        c5 == IF spi_ /\ sma_ /\ fpr_ THEN 4 ELSE c4
        c6 == IF isnan(spi) \/ isnan(sma) \/ isnan(fpr) THEN NaN ELSE c5
    IN  c6

Components == {"spi", "sma", "fpr"}

\* np.arange(int(start_date[:4]), int(end_date[:4])+1)
Years(a) == Year(a.start_date)..Year(a.end_date)

\* GDODownload.__init__: the year is listed unless the URL cannot be opened
\* or the list of files is empty
GDODownload_success(outcome) == outcome # "nolist"

\* GDODownload.download: the file is there unless urlretrieve raised
GDODownload_download(outcome) == outcome = "ok"

\* xr.merge of the downloaded yearly files: the provider's time steps of the
\* years in fp
merged(prov, fp) == [t \in {u \in DOMAIN prov : Year(u) \in fp} |-> prov[t]]

\* a swallowed failure: process() goes on without any file
process_raises_never(fp) == FALSE

\* GDODroughtIndex.load_and_trim without a file: xr.merge of nothing is an
\* empty dataset, and selecting its time raises
process_raises(fp) == fp = {}

\* Dataset.to_dataframe().reset_index() of a component: one row per time of
\* the cell
to_dataframe(da) ==
    [i \in DOMAIN da.time |-> [time |-> da.time[i], val |-> da.val[i]]]

\* df[df.var != OUTSIDE_AREA_SELECTION]
df_drop_outside(df) ==
    LET keep == SortedSeq({i \in DOMAIN df : df[i].val # OUTSIDE_AREA_SELECTION})
    IN  [k \in DOMAIN keep |-> df[keep[k]]]

\* CDI: self.data_ds.to_dataframe().reset_index()
ds_to_dataframe(d) ==
    [i \in DOMAIN d.time |->
        [time |-> d.time[i], spi |-> d.spi[i], sma |-> d.sma[i], fpr |-> d.fpr[i],
         CDI |-> d.CDI[i]]]

\* the file is written whether it exists or not
generate_output_overwrite(file) == "written"

\* DroughtIndex.generate_output: the file is written unless it exists
generate_output(file) == IF file = "absent" THEN "written" ELSE file

\* the year is not carried: January goes back to December of the same year
MinusOneMonthSameYear(n) ==
    IF Month(n) > 1 THEN MkDate(Year(n), Month(n) - 1, Day(n))
    ELSE MkDate(Year(n), 12, Day(n))

\* no month is subtracted
MinusNoMonth(n) == n

\* relativedelta(months=1) subtracted from the first day of a month
MinusOneMonth(n) ==
    IF Month(n) > 1 THEN MkDate(Year(n), Month(n) - 1, Day(n))
    ELSE MkDate(Year(n) - 1, 12, Day(n))

\* CDI.__init__.aa_new
aa_new(required_sdate, a) ==
    [start_date |-> assign(required_sdate), end_date |-> a.end_date,
     latitude |-> a.latitude]

(***************************************************************************)
(* drought_indices.py: the ECMWF components.  Soil water, precipitation,   *)
(* the anomaly and the SPI are counted in hundredths, and a quotient is    *)
(* cut to a whole number of hundredths.  A dataset is a function from the  *)
(* grid cells <<lon, lat>> to the series of one variable; of the four soil *)
(* layers one is carried.                                                  *)
(***************************************************************************)
\* the float values +inf and -inf
PosInf == 88888
NegInf == -88888

\* indices.INDICES: the range the fitted index is clipped to
FITTED_INDEX_VALID_MIN == -309
FITTED_INDEX_VALID_MAX == 309

RECURSIVE SumOver(_, _)
SumOver(f, S) ==
    IF S = {} THEN 0
    ELSE LET x == CHOOSE y \in S : TRUE IN f[x] + SumOver(f, S \ {x})

RECURSIVE SqrtIn(_, _, _)
SqrtIn(n, lo, hi) ==
    IF lo = hi THEN lo
    ELSE LET mid == (lo + hi + 1) \div 2
         IN  IF mid * mid <= n THEN SqrtIn(n, mid, hi) ELSE SqrtIn(n, lo, mid - 1)

\* np.sqrt, cut to a whole number
ISqrt(n) == SqrtIn(n, 0, 46340)

\* a - b on floats: NaN propagates
fsub(a, b) == IF a = NaN \/ b = NaN THEN NaN ELSE a - b

\* a / b on floats: NaN propagates, a division by zero gives +/-inf or NaN
\* and raises nothing
fdiv(a, b) ==
    IF a = NaN \/ b = NaN THEN NaN
    ELSE IF b = 0 THEN (IF a > 0 THEN PosInf ELSE IF a < 0 THEN NegInf ELSE NaN)
    ELSE (100 * a) \div b

\* mean(skipna=True) of f over the indices S: NaN when nothing is left
nanmean(f, S) ==
    LET P == {x \in S : f[x] # NaN}
    IN  IF P = {} THEN NaN ELSE SumOver(f, P) \div Cardinality(P)

\* std(skipna=True), ddof = 0.  Deviations beyond 30000 are squared in units
\* of four, which keeps the sum of squares inside 32 bits.
nanstd(f, S) ==
    LET P  == {x \in S : f[x] # NaN}
        m  == nanmean(f, S)
        k  == IF \E x \in P : f[x] - m > 30000 \/ m - f[x] > 30000 THEN 4 ELSE 1
        sq == [x \in P |-> ((f[x] - m) \div k) * ((f[x] - m) \div k)]
    IN  IF P = {} THEN NaN
        ELSE IF k = 1 THEN ISqrt(SumOver(sq, P) \div Cardinality(P))
        ELSE k * ISqrt(SumOver([x \in P |-> sq[x] \div Cardinality(P)], P))

\* max(skipna=True)
nanmax(f, S) ==
    LET P == {x \in S : f[x] # NaN}
    IN  IF P = {} THEN NaN ELSE SetMax({f[x] : x \in P})

\* the result of a point aggregation has no latitude and longitude dimension
NoCell == <<>>

NoSeries == [ok |-> FALSE, cells |-> {}, val |-> <<>>]

\* utils.mask_ds_poly(..., other=OUTSIDE_AREA_SELECTION, mask_bbox=False) on a
\* dataset of series: every value of a kept excluded cell becomes other
mask_series(in, series) ==
    LET d == [ok |-> TRUE, lons |-> in.lons, lats |-> in.lats,
              val |-> [c \in in.lons \X in.lats |-> 0], mask |-> <<>>]
        m == mask_ds_poly(d, in.poly, OUTSIDE_AREA_SELECTION, FALSE)
    IN  IF ~m.ok THEN NoSeries
        ELSE [ok    |-> TRUE,
              cells |-> m.lons \X m.lats,
              val   |-> [c \in m.lons \X m.lats |->
                            IF m.mask[c] THEN series[c]
                            ELSE [t \in DOMAIN series[c] |-> OUTSIDE_AREA_SELECTION]]]

\* utils.ds_to_dekads on the daily values smp (date -> value) of one cell
ds_to_dekads(smp) ==
    LET days     == date_range(SetMin(DOMAIN smp), SetMax(DOMAIN smp))
        ds_daily == [i \in DOMAIN days |->
                        IF days[i] \in DOMAIN smp THEN smp[days[i]] ELSE NaN]
        date     == [i \in DOMAIN days |-> MinusDays(days[i], DekadOffset(Day(days[i])))]
        groups   == np_unique(date)
    IN  [time |-> groups,
         val  |-> [g \in DOMAIN groups |->
                      nanmean(ds_daily, {i \in DOMAIN days : date[i] = groups[g]})]]

\* utils.crop_ds
crop_ds(da, s, e) ==
    LET keep == SortedSeq({i \in DOMAIN da.time : da.time[i] >= s /\ da.time[i] <= e})
    IN  [time |-> [k \in DOMAIN keep |-> da.time[keep[k]]],
         val  |-> [k \in DOMAIN keep |-> da.val[keep[k]]]]

NoResult ==
    [ok |-> FALSE, cells |-> {}, time |-> <<>>, var |-> <<>>, idx |-> <<>>,
     outfile |-> FALSE]

\* the baseline mean and standard deviation of SMA_ECMWF.process over the
\* cells of the dataset monthly_swv
swv_mean(monthly_swv, cells, T) ==
    nanmean([t \in T |-> nanmean([c \in cells |-> monthly_swv[c][t]], cells)], T)

swv_std(monthly_swv, cells, T) ==
    nanstd([t \in T |-> nanmean([c \in cells |-> monthly_swv[c][t]], cells)], T)

\* SMA_ECMWF.process: var is swvl, idx is zscore_swvl.  The test
\* self.sstype.value==SSType.POINT compares a string with an enum member and
\* is never true, so no coordinate is dropped for a point.
SMA_ECMWF_process(in) ==
    LET st   == SSTypeOf(in.latitude)
        all  == in.lons \X in.lats
        asis(series) == [ok |-> TRUE, cells |-> all, val |-> series]
        monthly_swv == IF st = "polygon" THEN mask_series(in, in.monthly) ELSE asis(in.monthly)
        sample_swv  == IF st = "polygon" THEN mask_series(in, in.sample) ELSE asis(in.sample)
    IN  IF ~monthly_swv.ok THEN NoResult
        ELSE
        LET cells == monthly_swv.cells
            T     == DOMAIN in.monthly[CHOOSE c \in all : TRUE]
            mean  == swv_mean(monthly_swv.val, cells, T)
            std   == swv_std(monthly_swv.val, cells, T)
            swv_dekads == [c \in cells |-> ds_to_dekads(sample_swv.val[c])]
            zscore == [c \in cells |->
                         [time |-> swv_dekads[c].time,
                          val  |-> [i \in DOMAIN swv_dekads[c].val |->
                                       fdiv(fsub(swv_dekads[c].val[i], mean), std)]]]
            time_dekads_ == dti_dekads(in.start_date, in.end_date)
        IN  [ok    |-> TRUE,
             cells |-> cells,
             time  |-> time_dekads_,
             var   |-> [c \in cells |-> da_reindex(swv_dekads[c], time_dekads_).val],
             idx   |-> [c \in cells |-> da_reindex(zscore[c], time_dekads_).val],
             outfile |-> TRUE]

\* the fitted transform of the climate_indices package: a series without a
\* value is returned as it is, negative values are clipped to zero, and the
\* fitted index (here the distance to a centre of the calibration) is
\* clipped to the valid range
calc_spi(series, centre) ==
    IF \A i \in DOMAIN series : series[i] = NaN THEN series
    ELSE [i \in DOMAIN series |->
             IF series[i] = NaN THEN NaN
             ELSE np_clip((IF series[i] < 0 THEN 0 ELSE series[i]) - centre,
                          FITTED_INDEX_VALID_MIN, FITTED_INDEX_VALID_MAX)]

\* SPI_ECMWF.process with convert_precip_to_spi: var is tp, idx is spi
SPI_ECMWF_process(in, centre) ==
    LET st  == SSTypeOf(in.latitude)
        all == in.lons \X in.lats
        ds_ == IF st = "polygon" THEN mask_series(in, in.tp)
               ELSE [ok |-> TRUE, cells |-> all, val |-> in.tp]
    IN  IF ~ds_.ok THEN NoResult
        ELSE
        LET T     == DOMAIN in.tp_time
            cells == IF st = "point" THEN {NoCell} ELSE ds_.cells
            da    == IF st = "point"
                     THEN [c \in cells |->
                              [t \in T |-> nanmax([k \in ds_.cells |-> ds_.val[k][t]], ds_.cells)]]
                     ELSE ds_.val
            spi_vals    == [c \in cells |-> calc_spi(da[c], centre)]
            time_months == month_starts(in.start_date, in.end_date)
            filtered(v) == crop_ds([time |-> in.tp_time, val |-> v], in.start_date, in.end_date)
        IN  [ok    |-> TRUE,
             cells |-> cells,
             time  |-> time_months,
             var   |-> [c \in cells |-> da_reindex(filtered(da[c]), time_months).val],
             idx   |-> [c \in cells |-> da_reindex(filtered(spi_vals[c]), time_months).val],
             outfile |-> TRUE]

(***************************************************************************)
(* Each specification below exercises one part of the program and leaves   *)
(* the state of the other parts as it is before any call.                  *)
(***************************************************************************)
DkIdle ==
    /\ dk_pc = "idle"
    /\ sdate = 0
    /\ edate = 0
    /\ dekads = <<>>

MkIdle ==
    /\ mk_pc = "idle"
    /\ ds = NoDataset
    /\ poly = <<>>
    /\ mask_bbox = TRUE
    /\ rtn = NoDataset

CcIdle ==
    /\ cc_pc = "idle"
    /\ cc_args = <<NaN, NaN, NaN>>
    /\ cc_out = NaN

EmptyDS == [time |-> <<>>, spi |-> <<>>, sma |-> <<>>, fpr |-> <<>>, CDI |-> <<>>]

NoArgs == [start_date |-> 0, end_date |-> 0, latitude |-> 0]

\* a CDI object before __init__ has run
CdBlank ==
    /\ cd_pc = "idle"
    /\ sstype = "unset"
    /\ aa = [spi |-> NoArgs, sma |-> NoArgs, fpr |-> NoArgs]
    /\ time_dekads = <<>>
    /\ comp_ds = [spi |-> EmptyDA, sma |-> EmptyDA, fpr |-> EmptyDA]
    /\ ds_reindexed = EmptyDS
    /\ ds_shifted = EmptyDS
    /\ data_ds = EmptyDS
    /\ files = [spi |-> {}, sma |-> {}, fpr |-> {}]
    /\ filepaths = [spi |-> {}, sma |-> {}, fpr |-> {}]
    /\ comp_df = [spi |-> <<>>, sma |-> <<>>, fpr |-> <<>>]
    /\ data_df = <<>>
    /\ reads = [spi |-> 0, sma |-> 0, fpr |-> 0]
    /\ outfile = "absent"

CdIdle ==
    /\ CdBlank
    /\ args = NoArgs
    /\ provider = [spi |-> <<>>, sma |-> <<>>, fpr |-> <<>>]
    /\ excluded = [spi |-> FALSE, sma |-> FALSE, fpr |-> FALSE]
    /\ retriever = [spi |-> <<>>, sma |-> <<>>, fpr |-> <<>>]

NoInput ==
    [latitude |-> 0, poly |-> <<>>, lons |-> {}, lats |-> {}, start_date |-> 0,
     end_date |-> 0, monthly |-> <<>>, sample |-> <<>>, tp_time |-> <<>>, tp |-> <<>>]

EcIdle ==
    /\ ec_pc = "idle"
    /\ ec_in = NoInput
    /\ ec_out = NoResult

NoCoord == [islist |-> FALSE, val |-> <<0>>]

NoRequest == [latitude |-> NoCoord, longitude |-> NoCoord, singleval |-> FALSE]

NoNames == [spi |-> "none", sma |-> "none", fpr |-> "none"]

NoIndex == [args |-> NoRequest, sstype |-> "none", comp |-> NoNames,
            vars |-> NoNames, classes |-> NoNames]

ArIdle ==
    /\ ar_pc = "idle"
    /\ ar_in = [latitude |-> NoCoord, longitude |-> NoCoord, singleval |-> FALSE,
                product |-> "SPI", spi_source |-> "GDO", sma_source |-> "GDO"]
    /\ ar_out = NoIndex

(***************************************************************************)
(* Specification of the polygon mask: mask_ds_poly applied to a regular    *)
(* NLon by NLat grid and to every rectangle and triangle of the lattice.   *)
(***************************************************************************)
NLon == 3
NLat == 2

GridLons == {grid_x * i : i \in 0..(NLon - 1)}
GridLats == {grid_y * j : j \in 0..(NLat - 1)}

\* cell values of the dataset: all present, or no measurement on one diagonal
Datasets ==
    {[ok |-> TRUE, lons |-> GridLons, lats |-> GridLats,
      val |-> [c \in GridLons \X GridLats |->
                  IF k = 1 /\ c[1] = c[2] THEN NaN ELSE c[1] + 100 * c[2]],
      mask |-> <<>>] : k \in 0..1}

\* vertex coordinates: cell centres, cell edges, and a quarter cell off centre
LatticeX == {x \in (0 - grid_x \div 2)..(grid_x * NLon - grid_x \div 2) : x % grid_x \in {0, 1, 2}}
LatticeY == {y \in (0 - grid_y \div 2)..(grid_y * NLat - grid_y \div 2) : y % grid_y \in {0, 1, 2}}

Rectangles ==
    {<< <<x1, y1>>, <<x2, y1>>, <<x2, y2>>, <<x1, y2>> >> :
        <<x1, x2, y1, y2>> \in
            {q \in LatticeX \X LatticeX \X LatticeY \X LatticeY : q[1] < q[2] /\ q[3] < q[4]}}

TriPts ==
    << <<-2, -2>>, <<3, -1>>, <<9, 0>>, <<0, 3>>, <<5, 2>>, <<10, 5>>,
       <<1, 6>>, <<7, 6>>, <<6, 1>>, <<3, 4>> >>

TwiceArea(a, b, c) == (b[1] - a[1]) * (c[2] - a[2]) - (c[1] - a[1]) * (b[2] - a[2])

Triangles ==
    {<<TriPts[t[1]], TriPts[t[2]], TriPts[t[3]]>> :
        t \in {u \in (DOMAIN TriPts) \X (DOMAIN TriPts) \X (DOMAIN TriPts) :
                  /\ u[1] < u[2] /\ u[2] < u[3]
                  /\ TwiceArea(TriPts[u[1]], TriPts[u[2]], TriPts[u[3]]) # 0}}

Polygons == Rectangles \cup Triangles

MkInit ==
    /\ mk_pc = "idle"
    /\ ds \in Datasets
    /\ poly = <<>>
    /\ mask_bbox = TRUE
    /\ rtn = NoDataset
    /\ DkIdle /\ CcIdle /\ CdIdle /\ EcIdle /\ ArIdle

\* a rectangle east of the grid: it meets no cell footprint
FarRectangle ==
    << <<grid_x * NLon, 0>>, <<grid_x * NLon + 2, 0>>,
       <<grid_x * NLon + 2, 2>>, <<grid_x * NLon, 2>> >>

Regions == Polygons \cup {FarRectangle}

\* the two corners of a bounding box request
Corners == (LatticeX \cup {grid_x * NLon, grid_x * NLon + 2}) \X LatticeY

CallMaskDsPoly ==
    /\ mk_pc = "idle"
    /\ \E pn \in Regions : \E b \in BOOLEAN :
          /\ poly' = pn
          /\ mask_bbox' = b
          /\ rtn' = mask_ds_poly(ds, pn, OUTSIDE_AREA_SELECTION, b)
    /\ mk_pc' = "done"
    /\ UNCHANGED <<ds, dkvars, ccvars, cdvars, ecvars, arvars>>

\* open_bbox: mask_ds_bbox between the minima and maxima of the two corners
CallMaskDsBbox ==
    /\ mk_pc = "idle"
    /\ \E p \in Corners : \E q \in Corners :
          /\ poly' = <<p, q>>
          /\ rtn' = mask_ds_bbox(ds, SetMin({p[1], q[1]}), SetMax({p[1], q[1]}),
                                     SetMin({p[2], q[2]}), SetMax({p[2], q[2]}))
    /\ mk_pc' = "done_bbox"
    /\ UNCHANGED <<ds, mask_bbox, dkvars, ccvars, cdvars, ecvars, arvars>>

MkNext ==
    \/ CallMaskDsPoly
    \/ CallMaskDsBbox

SpecMask == MkInit /\ [][MkNext]_vars

\* the cells a returned dataset marks as included
IncludedCells(r) == IF r.ok THEN {c \in DOMAIN r.mask : r.mask[c]} ELSE {}

\* the cells of dataset d whose footprint overlaps or intersects polygon pn
FootprintCells(d, pn) ==
    {c \in d.lons \X d.lats :
        shp_overlaps(pn, polycell(c[1], c[2])) \/ shp_intersects(pn, polycell(c[1], c[2]))}

\* C8: mask_ds_poly marks a grid cell as included if and only if the cell's
\* footprint overlaps or intersects the polygon, and every excluded cell kept
\* in the result carries the outside marker, not a missing-data value.
C8_Original ==
    mk_pc = "done" =>
        /\ IncludedCells(rtn) = FootprintCells(ds, poly)
        /\ \A c \in DOMAIN rtn.val :
              ~rtn.mask[c] => rtn.val[c] = OUTSIDE_AREA_SELECTION /\ rtn.val[c] # NaN

\* the polygon is a rectangle whose edges lie on cell edges of the grid
IsBlockRect(pn) ==
    /\ Len(pn) = 4
    /\ pn[1][2] = pn[2][2] /\ pn[2][1] = pn[3][1]
    /\ pn[3][2] = pn[4][2] /\ pn[4][1] = pn[1][1]
    /\ \A i \in DOMAIN pn : pn[i][1] % grid_x = grid_x \div 2 /\ pn[i][2] % grid_y = grid_y \div 2

\* the cells whose footprints make up the rectangle
BlockCells(d, pn) ==
    {c \in d.lons \X d.lats :
        /\ SetMin({pn[i][1] : i \in DOMAIN pn}) < c[1]
        /\ c[1] < SetMax({pn[i][1] : i \in DOMAIN pn})
        /\ SetMin({pn[i][2] : i \in DOMAIN pn}) < c[2]
        /\ c[2] < SetMax({pn[i][2] : i \in DOMAIN pn})}

\* C9: a rectangular polygon whose edges coincide with the outer edges of an
\* N x M block of cell footprints includes exactly the N*M cells of the
\* block, with and without the bounding-box pre-filter.
C9_Original ==
    (mk_pc = "done" /\ IsBlockRect(poly)) =>
        IncludedCells(rtn) = BlockCells(ds, poly)

\* C10: mask_ds_poly includes the same set of cells with the bounding-box
\* pre-filter as without it.
C10_Original ==
    mk_pc = "done" =>
        IncludedCells(rtn) =
            IncludedCells(mask_ds_poly(ds, poly, OUTSIDE_AREA_SELECTION, ~mask_bbox))

\* C19: a region that selects no grid cell makes the selection fail with an
\* error: a selection call that returns normally has selected at least one
\* cell, it never hands an empty or absent dataset to the processing.
C19_Original ==
    mk_pc \in {"done", "done_bbox"} => IncludedCells(rtn) # {}

(***************************************************************************)
(* Specification of the dekad calendar: dti_dekads applied to every range  *)
(* of at most MaxSpan + 1 days starting in DkStarts.                       *)
(***************************************************************************)
MaxSpan == 52

\* starts around month ends of 31, 30, 29 and 28 days and around the new year
DkStarts ==
    {n \in 20200120..20200305 : ValidDate(n)}
        \cup {n \in 20210220..20210302 : ValidDate(n)}
        \cup {n \in 20201225..20201231 : ValidDate(n)}
        \cup {n \in 20200425..20200502 : ValidDate(n)}
        \cup {20200102, 20200105}

DkInit == DkIdle /\ MkIdle /\ CcIdle /\ CdIdle /\ EcIdle /\ ArIdle

CallDtiDekads ==
    /\ dk_pc = "idle"
    /\ \E s \in DkStarts : \E k \in 0..MaxSpan :
          LET e == PlusDays(s, k)
          IN  /\ sdate' = s
              /\ edate' = e
              /\ dekads' = dti_dekads(s, e)
    /\ dk_pc' = "done"
    /\ UNCHANGED <<mkvars, ccvars, cdvars, ecvars, arvars>>

DkNext == CallDtiDekads

SpecDekads == DkInit /\ [][DkNext]_vars

\* every calendar day of [s, e]
DaysOf(s, e) == {n \in s..e : ValidDate(n)}

StrictlyIncreasing(seq) == \A i, j \in DOMAIN seq : i < j => seq[i] < seq[j]

\* C5: for every start <= end the grid returned by dti_dekads is strictly
\* increasing (hence free of duplicates) and every entry is a calendar date
\* on day 1, 11 or 21 of its month.
C5_GridIncreasingOnDekadDays ==
    dk_pc = "done" =>
        /\ StrictlyIncreasing(dekads)
        /\ \A i \in DOMAIN dekads :
              ValidDate(dekads[i]) /\ Day(dekads[i]) \in {1, 11, 21}

\* a range over the end of January (days 29, 30, 31) and the whole of February
C5_Witness ==
    /\ dk_pc = "done"
    /\ sdate = 20200125 /\ edate = 20200302
    /\ Len(dekads) = 5

\* C6: dti_dekads(start, end) is the sorted duplicate-free image of the days
\* of [start, end] under assign; the offset arithmetic agrees with
\* nearest_dekad on every day 1..31; ('20200105','20200225') gives the six
\* dekads of January and February 2020.
C6_GridIsImageUnderAssign ==
    dk_pc = "done" =>
        /\ StrictlyIncreasing(dekads)
        /\ Range(dekads) = {assign(n) : n \in DaysOf(sdate, edate)}
        /\ \A day \in 1..31 : day - DekadOffset(day) = nearest_dekad(day)
        /\ (sdate = 20200105 /\ edate = 20200225) =>
              dekads = <<20200101, 20200111, 20200121,
                         20200201, 20200211, 20200221>>

C6_Witness ==
    /\ dk_pc = "done"
    /\ sdate = 20200105 /\ edate = 20200225
    /\ Len(dekads) = 6

\* C7 as stated: the grid holds the boundary of every dekad with a day in
\* [start, end], and no boundary outside [start, end] other than that of the
\* dekad containing end when end is not itself a boundary.
C7_Original ==
    dk_pc = "done" =>
        /\ \A n \in DaysOf(sdate, edate) : assign(n) \in Range(dekads)
        /\ \A i \in DOMAIN dekads :
              \/ sdate <= dekads[i] /\ dekads[i] <= edate
              \/ dekads[i] = assign(edate) /\ edate # assign(edate)

\* C7 as amended: the grid holds the boundary of every dekad with a day in
\* [start, end], and no boundary outside [start, end] other than that of the
\* dekad containing start when start is not itself a boundary (it precedes
\* start); nothing in the grid lies after end.
C7_BoundariesOfTouchedDekads ==
    dk_pc = "done" =>
        /\ \A n \in DaysOf(sdate, edate) : assign(n) \in Range(dekads)
        /\ \A i \in DOMAIN dekads :
              \/ sdate <= dekads[i] /\ dekads[i] <= edate
              \/ dekads[i] = assign(sdate) /\ sdate # assign(sdate)

\* start inside a dekad: the grid opens with a boundary before start
C7_Witness ==
    /\ dk_pc = "done"
    /\ sdate # assign(sdate)
    /\ Len(dekads) >= 2
    /\ dekads[1] = assign(sdate) /\ dekads[1] < sdate

(***************************************************************************)
(* Specification of the classifier: calc_cdi applied to every triple of    *)
(* CcValues (tenths; NaN for a missing value).                             *)
(***************************************************************************)
CcValues == {-20, -15, -12, -10, -5, -2, NaN}

CcInit ==
    /\ cc_pc = "idle"
    /\ cc_args \in CcValues \X CcValues \X CcValues
    /\ cc_out = NaN
    /\ DkIdle /\ MkIdle /\ CdIdle /\ EcIdle /\ ArIdle

CallCalcCdi ==
    /\ cc_pc = "idle"
    /\ cc_out' = calc_cdi(cc_args[1], cc_args[2], cc_args[3])
    /\ cc_pc' = "done"
    /\ UNCHANGED <<cc_args, dkvars, mkvars, cdvars, ecvars, arvars>>

CcNext == CallCalcCdi

SpecCalc == CcInit /\ [][CcNext]_vars

\* the ordered cascade of the specification, on present values
Cascade(spi, sma, fpr) ==
    IF spi < MinusOne /\ sma < MinusOne /\ fpr < MinusOne THEN 4
    ELSE IF spi < MinusOne /\ fpr < MinusOne THEN 3
    ELSE IF spi < MinusOne /\ sma < MinusOne THEN 2
    ELSE IF spi < MinusOne THEN 1
    ELSE 0

\* C1: on every triple without a missing value calc_cdi returns the severity
\* of the ordered cascade 4 / 3 / 2 / 1 / 0; the comparison with -1 is strict
\* (a value of exactly -1 does not warn), and when SPI is not below -1 the
\* result is 0 whatever SMA and fAPAR are.
C1_CascadeOnPresentValues ==
    (cc_pc = "done" /\ \A i \in 1..3 : cc_args[i] # NaN) =>
        /\ cc_out = Cascade(cc_args[1], cc_args[2], cc_args[3])
        /\ (cc_args[1] >= MinusOne => cc_out = 0)
        /\ (cc_args[1] < MinusOne /\ cc_args[2] = MinusOne /\ cc_args[3] = MinusOne
               => cc_out = 1)

\* the specification's example (SPI=-1.5, SMA=-0.2, fAPAR=-1.2) -> 3
C1_Witness ==
    /\ cc_pc = "done"
    /\ cc_args = <<-15, -2, -12>>
    /\ cc_out = 3

(***************************************************************************)
(* Specification of the Combined Drought Indicator: CDI.__init__ and       *)
(* CDI.process with the GDO components, on the series of one grid cell.    *)
(* A provider series is dry (-2.0) from an onset date on and hi before it, *)
(* and may lack one time step.                                             *)
(***************************************************************************)
CdRequests ==
    {[start_date |-> 20200401, end_date |-> 20200521],
     [start_date |-> 20200412, end_date |-> 20200430]}

ProviderMonths == {MkDate(2020, m, 1) : m \in 1..6}
ProviderDekads == {MkDate(2020, m, d) : m \in 1..6, d \in {1, 11, 21}}

SpiOnsets == {20200301, 20200501, 99999999}
SmaOnsets == {20200401, 20200321, 99999999}
FprOnsets == {20200411, 20200401, 99999999}

\* per component, the time steps the provider lacks
GapChoices ==
    {[spi |-> {}, sma |-> {}, fpr |-> {}],
     [spi |-> {20200301}, sma |-> {}, fpr |-> {}],
     [spi |-> {20200401}, sma |-> {}, fpr |-> {}],
     [spi |-> {}, sma |-> {20200321}, fpr |-> {}],
     [spi |-> {}, sma |-> {20200411}, fpr |-> {}],
     [spi |-> {}, sma |-> {}, fpr |-> {20200401}],
     [spi |-> {}, sma |-> {}, fpr |-> {20200421}]}

\* per component, whether the polygon leaves the cell out
ExclChoices ==
    {[spi |-> FALSE, sma |-> FALSE, fpr |-> FALSE],
     [spi |-> TRUE, sma |-> FALSE, fpr |-> FALSE],
     [spi |-> FALSE, sma |-> TRUE, fpr |-> FALSE],
     [spi |-> FALSE, sma |-> FALSE, fpr |-> TRUE]}

Series(times, onset, hi) == [t \in times |-> IF t >= onset THEN -20 ELSE hi]

CdInit ==
    /\ CdBlank
    /\ \E r \in CdRequests : \E n \in 1..3 :
          args = [start_date |-> r.start_date, end_date |-> r.end_date, latitude |-> n]
    /\ \E hi \in {MinusOne, 0} : \E g \in GapChoices :
       \E o1 \in SpiOnsets : \E o2 \in SmaOnsets : \E o3 \in FprOnsets :
          provider = [spi |-> Series(ProviderMonths \ g.spi, o1, hi),
                      sma |-> Series(ProviderDekads \ g.sma, o2, hi),
                      fpr |-> Series(ProviderDekads \ g.fpr, o3, hi)]
    /\ excluded \in ExclChoices
    /\ (args.latitude < 3 => excluded = [spi |-> FALSE, sma |-> FALSE, fpr |-> FALSE])
    /\ retriever = [c \in Components |-> [y \in {2020} |-> "ok"]]
    /\ DkIdle /\ MkIdle /\ CcIdle /\ EcIdle /\ ArIdle

\* what the three process() calls of the components leave alone
cdin == <<args, provider, excluded, retriever>>

\* CDI.__init__
CDI_init ==
    /\ cd_pc = "idle"
    /\ LET sdate_ts  == args.start_date
           sdate_dk  == assign(sdate_ts)
           sdate_spi == MinusOneMonth(MkDate(Year(sdate_ts), Month(sdate_ts), 1))
           sdate_sma == MinusDays(sdate_dk, 20)
           sdate_fpr == MinusDays(sdate_dk, 10)
       IN  /\ sstype' = SSTypeOf(args.latitude)
           /\ aa' = [spi |-> aa_new(sdate_spi, args),
                     sma |-> aa_new(sdate_sma, args),
                     fpr |-> aa_new(sdate_fpr, args)]
           /\ time_dekads' = dti_dekads(sdate_spi, args.end_date)
    /\ files' = [c \in Components |->
                    {y \in Years(aa'[c]) : GDODownload_success(retriever[c][y])}]
    /\ cd_pc' = "constructed"
    /\ UNCHANGED <<cdin, comp_ds, ds_reindexed, ds_shifted, data_ds, filepaths,
                   comp_df, data_df, reads, outfile>>
    /\ UNCHANGED <<dkvars, mkvars, ccvars, ecvars, arvars>>

\* CDI.download
CDI_download ==
    /\ cd_pc = "constructed"
    /\ filepaths' = [c \in Components |->
                        {y \in files[c] : GDODownload_download(retriever[c][y])}]
    /\ cd_pc' = "downloaded"
    /\ UNCHANGED <<cdin, sstype, aa, time_dekads, comp_ds, ds_reindexed, ds_shifted,
                   data_ds, files, comp_df, data_df, reads, outfile>>
    /\ UNCHANGED <<dkvars, mkvars, ccvars, ecvars, arvars>>

\* one args object for the three components: a component that has been
\* processed leaves its start date behind for the next
component_process_shared(c) ==
    LET prov == merged(provider[c], filepaths[c])
        st   == SSTypeOf(aa[c].latitude)
        seen == {d \in Components : reads[d] > 0} \cup {c}
        a    == [aa[c] EXCEPT !.start_date = SetMax({aa[d].start_date : d \in seen})]
    IN  IF c = "spi" THEN SPI_GDO_process(prov, excluded[c], st, a)
        ELSE IF c = "sma" THEN SMA_GDO_process(prov, excluded[c], st, a)
        ELSE FPAR_GDO_process(prov, excluded[c], st, a)

\* the data_ds a component's process() computes
component_process(c) ==
    LET prov == merged(provider[c], filepaths[c])
        st   == SSTypeOf(aa[c].latitude)
    IN  IF c = "spi" THEN SPI_GDO_process(prov, excluded[c], st, aa[c])
        ELSE IF c = "sma" THEN SMA_GDO_process(prov, excluded[c], st, aa[c])
        ELSE FPAR_GDO_process(prov, excluded[c], st, aa[c])

\* one call of process() on component c: data_ds and data_df are stored and
\* the input data are read once more
StoreProcessed(c) ==
    /\ comp_ds' = [comp_ds EXCEPT ![c] = component_process(c)]
    /\ comp_df' = [comp_df EXCEPT ![c] = df_drop_outside(to_dataframe(comp_ds'[c]))]
    /\ reads' = [reads EXCEPT ![c] = reads[c] + 1]

\* CDI.process: self.spi.process()
SPI_process ==
    /\ cd_pc = "downloaded"
    /\ IF process_raises(filepaths.spi)
       THEN cd_pc' = "error" /\ UNCHANGED <<comp_ds, comp_df, reads>>
       ELSE cd_pc' = "spi" /\ StoreProcessed("spi")
    /\ UNCHANGED <<cdin, sstype, aa, time_dekads, ds_reindexed, ds_shifted, data_ds,
                   files, filepaths, data_df, outfile>>
    /\ UNCHANGED <<dkvars, mkvars, ccvars, ecvars, arvars>>

\* CDI.process: self.sma.process()
SMA_process ==
    /\ cd_pc = "spi"
    /\ IF process_raises(filepaths.sma)
       THEN cd_pc' = "error" /\ UNCHANGED <<comp_ds, comp_df, reads>>
       ELSE cd_pc' = "sma" /\ StoreProcessed("sma")
    /\ UNCHANGED <<cdin, sstype, aa, time_dekads, ds_reindexed, ds_shifted, data_ds,
                   files, filepaths, data_df, outfile>>
    /\ UNCHANGED <<dkvars, mkvars, ccvars, ecvars, arvars>>

\* CDI.process: self.fpr.process()
FPR_process ==
    /\ cd_pc = "sma"
    /\ IF process_raises(filepaths.fpr)
       THEN cd_pc' = "error" /\ UNCHANGED <<comp_ds, comp_df, reads>>
       ELSE cd_pc' = "fpr" /\ StoreProcessed("fpr")
    /\ UNCHANGED <<cdin, sstype, aa, time_dekads, ds_reindexed, ds_shifted, data_ds,
                   files, filepaths, data_df, outfile>>
    /\ UNCHANGED <<dkvars, mkvars, ccvars, ecvars, arvars>>

\* CDI.process from the component data to the output file (lines 886-948)
CDI_process ==
    /\ cd_pc = "fpr"
    /\ LET da_spi0 == IF sstype = "polygon"
                      THEN da_where_ne(comp_ds.spi, OUTSIDE_AREA_SELECTION) ELSE comp_ds.spi
           da_sma0 == IF sstype = "polygon"
                      THEN da_where_ne(comp_ds.sma, OUTSIDE_AREA_SELECTION) ELSE comp_ds.sma
           da_fpr0 == IF sstype = "polygon"
                      THEN da_where_ne(comp_ds.fpr, OUTSIDE_AREA_SELECTION) ELSE comp_ds.fpr
           da_sma  == IF sstype # "point" THEN regrid_like(da_sma0, da_spi0) ELSE da_sma0
           da_fpr  == IF sstype # "point" THEN regrid_like(da_fpr0, da_spi0) ELSE da_fpr0
           spi_reindexed == da_reindex_ffill(da_spi0, time_dekads)
           sma_reindexed == da_reindex(da_sma, time_dekads)
           fpr_reindexed == da_reindex(da_fpr, time_dekads)
           spi_shifted == da_shift(spi_reindexed, 3)
           sma_shifted == da_shift(sma_reindexed, 2)
           fpr_shifted == da_shift(fpr_reindexed, 1)
           cdi == [i \in DOMAIN time_dekads |->
                      calc_cdi(spi_shifted.val[i], sma_shifted.val[i], fpr_shifted.val[i])]
       IN  /\ ds_reindexed' = [time |-> time_dekads, spi |-> spi_reindexed.val,
                               sma |-> sma_reindexed.val, fpr |-> fpr_reindexed.val,
                               CDI |-> <<>>]
           /\ ds_shifted' = [time |-> time_dekads, spi |-> spi_shifted.val,
                             sma |-> sma_shifted.val, fpr |-> fpr_shifted.val, CDI |-> cdi]
           /\ data_ds' = [time |-> time_dekads, spi |-> spi_reindexed.val,
                          sma |-> sma_reindexed.val, fpr |-> fpr_reindexed.val, CDI |-> cdi]
    /\ data_df' = ds_to_dataframe(data_ds')
    /\ outfile' = generate_output(outfile)
    /\ cd_pc' = "done"
    /\ UNCHANGED <<cdin, sstype, aa, time_dekads, comp_ds, files, filepaths, comp_df, reads>>
    /\ UNCHANGED <<dkvars, mkvars, ccvars, ecvars, arvars>>

CdNext ==
    \/ CDI_init
    \/ CDI_download
    \/ SPI_process
    \/ SMA_process
    \/ FPR_process
    \/ CDI_process

SpecCDI == CdInit /\ [][CdNext]_vars

Spec == SpecCDI

\* the value component c feeds into the severity at grid position i: the
\* component's series on the shared grid (forward-filled for SPI), lagged,
\* before the outside marker is turned into a missing value
LaggedInput(c, i) ==
    LET re == IF c = "spi" THEN da_reindex_ffill(comp_ds[c], time_dekads)
              ELSE da_reindex(comp_ds[c], time_dekads)
        k  == IF c = "spi" THEN 3 ELSE IF c = "sma" THEN 2 ELSE 1
    IN  IF i > k THEN re.val[i - k] ELSE NaN

C3_ShiftLaw ==
    cd_pc = "done" =>
        /\ Len(ds_shifted.spi) = Len(time_dekads)
        /\ Len(ds_shifted.sma) = Len(time_dekads)
        /\ Len(ds_shifted.fpr) = Len(time_dekads)
        /\ \A i \in DOMAIN time_dekads :
              /\ ds_shifted.spi[i] = IF i > 3 THEN ds_reindexed.spi[i - 3] ELSE NaN
              /\ ds_shifted.sma[i] = IF i > 2 THEN ds_reindexed.sma[i - 2] ELSE NaN
              /\ ds_shifted.fpr[i] = IF i > 1 THEN ds_reindexed.fpr[i - 1] ELSE NaN

\* all three series hold values at the end of the grid, which a wrap-around
\* would bring to the front
C3_Witness ==
    /\ cd_pc = "done"
    /\ Len(time_dekads) >= 6
    /\ ds_reindexed.spi[Len(time_dekads)] # NaN
    /\ ds_reindexed.sma[Len(time_dekads)] # NaN
    /\ ds_reindexed.fpr[Len(time_dekads)] # NaN
    /\ ds_shifted.spi[4] # NaN /\ ds_shifted.sma[4] # NaN /\ ds_shifted.fpr[4] # NaN
    /\ ds_shifted.spi[1] = NaN /\ ds_shifted.sma[1] = NaN /\ ds_shifted.fpr[1] = NaN

\* the scenario of C4: the request 2020-04-01 .. 2020-05-21, every value of the
\* three windows present and inside the region, SPI below -1 from March 2020
\* on, SMA from 2020-04-01 on, fAPAR from 2020-04-11 on and not before
C4_Scenario ==
    /\ args.start_date = 20200401 /\ args.end_date = 20200521
    /\ excluded = [spi |-> FALSE, sma |-> FALSE, fpr |-> FALSE]
    /\ DOMAIN provider.spi = ProviderMonths
    /\ DOMAIN provider.sma = ProviderDekads
    /\ DOMAIN provider.fpr = ProviderDekads
    /\ \A t \in ProviderMonths : (provider.spi[t] < MinusOne) <=> (t >= 20200301)
    /\ \A t \in ProviderDekads : (provider.sma[t] < MinusOne) <=> (t >= 20200401)
    /\ \A t \in ProviderDekads : (provider.fpr[t] < MinusOne) <=> (t >= 20200411)

C4_Dekads == <<20200401, 20200411, 20200421, 20200501, 20200511, 20200521>>

SeverityAt(t) == data_ds.CDI[IndexOf(data_ds.time, t)]

\* C4 as stated: in the scenario the severities at the six dekads from
\* 2020-04-01 to 2020-05-21 are 1, 1, 2, 2, 3, 3.
C4_Original ==
    (cd_pc = "done" /\ C4_Scenario) =>
        [i \in 1..6 |-> SeverityAt(C4_Dekads[i])] = <<1, 1, 2, 2, 3, 3>>

\* C4 as amended: in the scenario the severities at the six dekads from
\* 2020-04-01 to 2020-05-21 are 1, 1, 4, 4, 4, 4: from 2020-04-21 on the
\* lagged SPI, SMA and fAPAR are all below -1.
C4_ScenarioSeverities ==
    (cd_pc = "done" /\ C4_Scenario) =>
        [i \in 1..6 |-> SeverityAt(C4_Dekads[i])] = <<1, 1, 4, 4, 4, 4>>

C4_Witness ==
    /\ cd_pc = "done"
    /\ C4_Scenario
    /\ SeverityAt(20200411) = 1
    /\ SeverityAt(20200421) = 4

\* C14: for a bounding box or polygon request the exposed rows hold one row
\* per time of a cell and no row of a cell outside the requested region, at
\* any time step, the gap-filled ones included: neither in the rows of a
\* component nor in the rows of the CDI.
C14_Original ==
    (cd_pc = "done" /\ sstype \in {"bbox", "polygon"}) =>
        /\ \A i, j \in DOMAIN data_df : data_df[i].time = data_df[j].time => i = j
        /\ \A c \in Components : excluded[c] => comp_df[c] = <<>>
        /\ excluded.spi => data_df = <<>>

\* C15: each record of the CDI result carries, next to the severity, the
\* three lag-shifted component values the severity was derived from.
C15_Original ==
    cd_pc = "done" =>
        \A i \in DOMAIN data_df :
            /\ data_df[i].CDI = ds_shifted.CDI[i]
            /\ data_df[i].spi = ds_shifted.spi[i]
            /\ data_df[i].sma = ds_shifted.sma[i]
            /\ data_df[i].fpr = ds_shifted.fpr[i]

(***************************************************************************)
(* Specification of a CDI run with a failing retriever and repeated calls: *)
(* the request 2020-01-05 .. 2020-01-21, whose windows reach back into     *)
(* 2019, with every outcome of the retriever for the two yearly files of   *)
(* one component, followed by further calls of process() on a component.   *)
(***************************************************************************)
MaxRepeat == 1

FaultYears == {2019, 2020}

RetrieverOutcomes == {"ok", "nolist", "nofile"}

AllOk == [c \in Components |-> [y \in FaultYears |-> "ok"]]

\* the retriever fails for at most one component
RetrieverChoices ==
    {[AllOk EXCEPT ![c] = o] : c \in Components, o \in [FaultYears -> RetrieverOutcomes]}

FaultMonths == {20191201, 20200101}
FaultDekads == {20191211, 20191221, 20200101, 20200111, 20200121}

FtInit ==
    /\ CdBlank
    /\ \E n \in 1..3 :
          args = [start_date |-> 20200105, end_date |-> 20200121, latitude |-> n]
    /\ provider = [spi |-> Series(FaultMonths, 20200101, 0),
                   sma |-> Series(FaultDekads, 20200101, 0),
                   fpr |-> Series(FaultDekads, 20200111, 0)]
    /\ excluded \in ExclChoices
    /\ (args.latitude < 3 => excluded = [spi |-> FALSE, sma |-> FALSE, fpr |-> FALSE])
    /\ retriever \in RetrieverChoices
    /\ DkIdle /\ MkIdle /\ CcIdle /\ EcIdle /\ ArIdle

\* a further call of process() on a component of a finished CDI
ProcessAgain ==
    /\ cd_pc = "done"
    /\ reads.spi + reads.sma + reads.fpr < 3 + MaxRepeat
    /\ \E c \in Components : StoreProcessed(c)
    /\ UNCHANGED <<cd_pc, cdin, sstype, aa, time_dekads, ds_reindexed, ds_shifted,
                   data_ds, files, filepaths, data_df, outfile>>
    /\ UNCHANGED <<dkvars, mkvars, ccvars, ecvars, arvars>>

FtNext ==
    \/ CdNext
    \/ ProcessAgain

SpecFaults == FtInit /\ [][FtNext]_vars

\* C16: a second call of process() on the same component returns the result
\* of the first call without computing it again: the input data are read
\* once per component.
C16_Original == \A c \in Components : reads[c] <= 1

\* C17: the composed CDI output file is written only when all three component
\* process() calls have completed on downloaded files and the classification
\* is complete; while a component is still to be processed, and after a
\* component has raised, there is no composed output file.
C17_OutputOnlyAfterSuccess ==
    /\ outfile = "written" =>
          /\ cd_pc = "done"
          /\ \A c \in Components : reads[c] >= 1 /\ filepaths[c] # {}
          /\ Len(data_ds.CDI) = Len(time_dekads)
          /\ \A i \in DOMAIN data_ds.CDI : data_ds.CDI[i] \in (0..4) \cup {NaN}
    /\ cd_pc # "done" => outfile = "absent"

C17_Witness ==
    /\ cd_pc = "done"
    /\ outfile = "written"
    /\ \A c \in Components : reads[c] >= 1
    /\ \E i \in DOMAIN data_ds.CDI : data_ds.CDI[i] \in 0..4

\* a run that ends in an error after the first component has been processed
C17_ErrorReached ==
    /\ cd_pc = "error"
    /\ reads.spi = 1
    /\ outfile = "absent"

\* C18: when the retriever fails for some year of a component's window (the
\* list of files cannot be fetched, or a file cannot be downloaded), that
\* component's process() never completes: it does not go on with the data of
\* the remaining years.
C18_Original ==
    cd_pc # "idle" =>
        \A c \in Components :
            (\E y \in Years(aa[c]) : retriever[c][y] # "ok") => reads[c] = 0

(***************************************************************************)
(* Specification of the ECMWF components: SMA_ECMWF.process and            *)
(* SPI_ECMWF.process on a retrieved area of one, two or four grid cells,   *)
(* for a point, a bounding box and a polygon request.                      *)
(***************************************************************************)
EcGrids ==
    {[lons |-> {0}, lats |-> {0}],
     [lons |-> {0, grid_x}, lats |-> {0}],
     [lons |-> {0, grid_x}, lats |-> {0, grid_y}]}

\* a triangle over three cells of the two by two grid that leaves out the
\* cell <<grid_x, grid_y>>, a square inside cell <<0, 0>>, and a square that
\* meets no cell
EcPolygons ==
    {<< <<-1, -1>>, <<4, -1>>, <<-1, 4>> >>,
     << <<-1, -1>>, <<1, -1>>, <<1, 1>>, <<-1, 1>> >>,
     << <<9, 9>>, <<11, 9>>, <<11, 11>>, <<9, 11>> >>}

\* baseline soil water of two months: varying, constant, absent, one value
BasePatterns == {<<20, 40>>, <<30, 30>>, <<NaN, NaN>>, <<20, NaN>>}

\* daily soil water of 9, 10 and 11 January 2020
SamplePatterns ==
    {(20200109 :> 25 @@ 20200110 :> 35 @@ 20200111 :> 45),
     (20200109 :> 30 @@ 20200110 :> NaN @@ 20200111 :> 30)}

TpTime == <<20191201, 20200101, 20200201>>

TpPatterns == {<<50, 10, 30>>, <<NaN, NaN, NaN>>}

\* centres of the fitted distribution
FitCentres == {20, 400}

\* the cells differ: values grow with longitude and latitude
CellOffset(c) == (c[1] + 2 * c[2]) \div 2

OnCell(pattern, c) ==
    [t \in DOMAIN pattern |->
        IF pattern[t] = NaN THEN NaN ELSE pattern[t] + CellOffset(c)]

EcInit ==
    /\ ec_pc = "idle"
    /\ \E n \in 1..3 : \E g \in EcGrids : \E pn \in EcPolygons :
       \E b \in BasePatterns : \E sp \in SamplePatterns : \E tp \in TpPatterns :
          ec_in = [latitude   |-> n,
                   poly       |-> IF n = 3 THEN pn ELSE <<>>,
                   lons       |-> g.lons,
                   lats       |-> g.lats,
                   start_date |-> 20200101,
                   end_date   |-> 20200121,
                   monthly    |-> [c \in g.lons \X g.lats |-> OnCell(b, c)],
                   sample     |-> [c \in g.lons \X g.lats |-> OnCell(sp, c)],
                   tp_time    |-> TpTime,
                   tp         |-> [c \in g.lons \X g.lats |-> OnCell(tp, c)]]
    /\ ec_out = NoResult
    /\ DkIdle /\ MkIdle /\ CcIdle /\ CdIdle /\ ArIdle

CallSMA_ECMWF ==
    /\ ec_pc = "idle"
    /\ ec_out' = SMA_ECMWF_process(ec_in)
    /\ ec_pc' = IF ec_out'.ok THEN "sma_done" ELSE "error"
    /\ UNCHANGED <<ec_in, dkvars, mkvars, ccvars, cdvars, arvars>>

CallSPI_ECMWF ==
    /\ ec_pc = "idle"
    /\ \E centre \in FitCentres : ec_out' = SPI_ECMWF_process(ec_in, centre)
    /\ ec_pc' = IF ec_out'.ok THEN "spi_done" ELSE "error"
    /\ UNCHANGED <<ec_in, dkvars, mkvars, ccvars, cdvars, arvars>>

EcNext ==
    \/ CallSMA_ECMWF
    \/ CallSPI_ECMWF

SpecECMWF == EcInit /\ [][EcNext]_vars

\* the requested coordinate of a point request, and the grid cell nearest to it
EcPoint == <<0, 0>>

Dist2(c, q) == (c[1] - q[1]) * (c[1] - q[1]) + (c[2] - q[2]) * (c[2] - q[2])

NearestCell(in) ==
    CHOOSE c \in in.lons \X in.lats :
        \A k \in in.lons \X in.lats : Dist2(c, EcPoint) <= Dist2(k, EcPoint)

\* the request with the retrieved area cut down to the nearest cell
OnNearest(in) ==
    [in EXCEPT !.lons = {NearestCell(in)[1]}, !.lats = {NearestCell(in)[2]},
               !.monthly = [c \in {NearestCell(in)} |-> in.monthly[c]],
               !.sample  = [c \in {NearestCell(in)} |-> in.sample[c]],
               !.tp      = [c \in {NearestCell(in)} |-> in.tp[c]]]

\* the raw variable a component would return from the nearest cell alone
NearestVar(in, pc) ==
    LET r == IF pc = "sma_done" THEN SMA_ECMWF_process(OnNearest(in))
             ELSE SPI_ECMWF_process(OnNearest(in), 0)
    IN  r.var[CHOOSE c \in r.cells : TRUE]

\* C11: for a point request an ECMWF component returns the series of exactly
\* one grid cell, the cell nearest to the requested coordinate, and its value
\* at each time is that cell's value, not an aggregate over the cells of the
\* retrieved area.
C11_Original ==
    (ec_pc \in {"sma_done", "spi_done"} /\ SSTypeOf(ec_in.latitude) = "point") =>
        /\ Cardinality(ec_out.cells) = 1
        /\ \A c \in ec_out.cells : ec_out.var[c] = NearestVar(ec_in, ec_pc)

\* the cells of the retrieved area whose footprint the polygon meets
EcIncluded(in) ==
    {c \in in.lons \X in.lats : CellTest(in.poly, c[1], c[2])}

\* C13: for a polygon request the baseline mean and standard deviation are
\* those of the included cells alone, and every excluded cell that is kept
\* carries the outside marker in the returned index at every time, not a
\* number and not a missing value.
C13_Original ==
    (ec_pc \in {"sma_done", "spi_done"} /\ SSTypeOf(ec_in.latitude) = "polygon") =>
        /\ \A c \in ec_out.cells \ EcIncluded(ec_in) :
              \A i \in DOMAIN ec_out.idx[c] : ec_out.idx[c][i] = OUTSIDE_AREA_SELECTION
        /\ ec_pc = "sma_done" =>
              LET T == DOMAIN ec_in.monthly[CHOOSE c \in ec_out.cells : TRUE]
                  m == mask_series(ec_in, ec_in.monthly).val
              IN  /\ swv_mean(m, ec_out.cells, T)
                        = swv_mean(ec_in.monthly, EcIncluded(ec_in), T)
                  /\ swv_std(m, ec_out.cells, T)
                        = swv_std(ec_in.monthly, EcIncluded(ec_in), T)

\* the standard deviation SMA_ECMWF.process divides by
EcStd(in) ==
    LET all == in.lons \X in.lats
        m   == IF SSTypeOf(in.latitude) = "polygon"
               THEN mask_series(in, in.monthly)
               ELSE [ok |-> TRUE, cells |-> all, val |-> in.monthly]
    IN  swv_std(m.val, m.cells, DOMAIN in.monthly[CHOOSE c \in all : TRUE])

\* C20: when the baseline has a standard deviation of zero or no sample at
\* all, SMA_ECMWF.process ends in an error; it never returns an anomaly
\* series that holds an infinite or not-a-number value out of the division.
C20_Original ==
    ec_pc = "sma_done" =>
        /\ EcStd(ec_in) \notin {0, NaN}
        /\ \A c \in ec_out.cells : \A i \in DOMAIN ec_out.idx[c] :
              ec_out.idx[c][i] \notin {PosInf, NegInf}

(***************************************************************************)
(* Specification of a request: AnalysisArgs / CDIArgs built from the       *)
(* latitude and longitude as given (a number or a list), then the index    *)
(* constructed from them.  A coordinate argument is [islist, val]: val is  *)
(* the list, or the one number x written <<x>> with islist = FALSE.        *)
(***************************************************************************)
MaxPairs == 4

CoordValues == {10, 20}

\* x if type(x) == list else [x]
AsList(x) == IF x.islist THEN x ELSE [islist |-> TRUE, val |-> <<x.val[1]>>]

\* config.AnalysisArgs.__init__: ok = FALSE when ValueError is raised
AnalysisArgs_init(latitude, longitude, singleval) ==
    IF singleval
    THEN [ok |-> TRUE,
          args |-> [latitude |-> latitude, longitude |-> longitude, singleval |-> TRUE]]
    ELSE LET la == AsList(latitude)
             lo == AsList(longitude)
         IN  [ok |-> Len(lo.val) = Len(la.val),
              args |-> [latitude |-> la, longitude |-> lo, singleval |-> FALSE]]

\* config.CDIArgs.__init__: singleval is not handed to AnalysisArgs.__init__
\* and is stored afterwards
CDIArgs_init(latitude, longitude, singleval) ==
    LET base == AnalysisArgs_init(latitude, longitude, FALSE)
    IN  [base EXCEPT !.args.singleval = singleval]

\* DroughtIndex.__init__: lists are made of latitude and longitude, the
\* length check compares latitude with itself, sstype by len(latitude)
DroughtIndex_init(a) ==
    LET la == AsList(a.latitude)
        lo == AsList(a.longitude)
    IN  [args   |-> [a EXCEPT !.latitude = la, !.longitude = lo],
         sstype |-> SSTypeOf(Len(la.val))]

\* CDI.__init__, aa_new: the component built from args.latitude, args.longitude
Component_init(a) ==
    LET made == AnalysisArgs_init(a.latitude, a.longitude, FALSE)
    IN  IF made.ok THEN DroughtIndex_init(made.args).sstype ELSE "error"

Sources == {"GDO", "ECMWF"}

\* config.CDIArgs.__init__: spi_var, sma_var (no sma_var given), fpr_var
CDIArgs_vars(spi_source, sma_source) ==
    [spi |-> IF spi_source = "GDO" THEN "spg03" ELSE "spi",
     sma |-> IF spi_source = "GDO" THEN "smant" ELSE "zscore_swvl3",
     fpr |-> "fpanv"]

\* CDI.__init__: spi_class, sma_class and FPAR_GDO
CDI_classes(spi_source, sma_source) ==
    [spi |-> IF sma_source = "ECMWF" THEN "SPI_ECMWF" ELSE "SPI_GDO",
     sma |-> IF sma_source = "ECMWF" THEN "SMA_ECMWF" ELSE "SMA_GDO",
     fpr |-> "FPAR_GDO"]

\* the variables of data_ds after process(), by class of the component
data_vars(class) ==
    IF class = "SPI_GDO" THEN {"spg03"}
    ELSE IF class = "SPI_ECMWF" THEN {"tp", "spi"}
    ELSE IF class = "SMA_GDO" THEN {"smant"}
    ELSE IF class = "SMA_ECMWF"
         THEN {"swvl1", "swvl2", "swvl3", "swvl4",
               "zscore_swvl1", "zscore_swvl2", "zscore_swvl3", "zscore_swvl4"}
    ELSE IF class = "FPAR_GDO" THEN {"fpanv"}
    ELSE {}

RawLists == UNION {[1..n -> CoordValues] : n \in 0..MaxPairs}

RawCoords ==
    {[islist |-> FALSE, val |-> <<v>>] : v \in CoordValues}
        \cup {[islist |-> TRUE, val |-> l] : l \in RawLists}

ArInit ==
    /\ ar_pc = "idle"
    /\ ar_in \in [latitude : RawCoords, longitude : RawCoords, singleval : BOOLEAN,
                  product : {"SPI", "CDI"}, spi_source : Sources, sma_source : Sources]
    /\ (ar_in.product # "CDI" => ar_in.spi_source = "GDO" /\ ar_in.sma_source = "GDO")
    /\ ar_out = NoIndex
    /\ DkIdle /\ MkIdle /\ CcIdle /\ CdIdle /\ EcIdle

\* AnalysisArgs(...) or CDIArgs(...)
MakeArgs ==
    /\ ar_pc = "idle"
    /\ LET made == IF ar_in.product = "CDI"
                   THEN CDIArgs_init(ar_in.latitude, ar_in.longitude, ar_in.singleval)
                   ELSE AnalysisArgs_init(ar_in.latitude, ar_in.longitude, ar_in.singleval)
       IN  IF made.ok
           THEN /\ ar_pc' = "args"
                /\ ar_out' = [ar_out EXCEPT
                                 !.args = made.args,
                                 !.vars = IF ar_in.product = "CDI"
                                          THEN CDIArgs_vars(ar_in.spi_source, ar_in.sma_source)
                                          ELSE ar_out.vars]
           ELSE ar_pc' = "error" /\ UNCHANGED ar_out
    /\ UNCHANGED <<ar_in, dkvars, mkvars, ccvars, cdvars, ecvars>>

\* SPI_GDO(cfg, args) or CDI(cfg, args): DroughtIndex.__init__, and for the
\* CDI the three components built from the args it has stored
Construct ==
    /\ ar_pc = "args"
    /\ LET own == DroughtIndex_init(ar_out.args)
       IN  /\ ar_out' = [args    |-> own.args,
                         sstype  |-> own.sstype,
                         comp    |-> IF ar_in.product = "CDI"
                                     THEN [c \in Components |-> Component_init(own.args)]
                                     ELSE ar_out.comp,
                         vars    |-> ar_out.vars,
                         classes |-> IF ar_in.product = "CDI"
                                     THEN CDI_classes(ar_in.spi_source, ar_in.sma_source)
                                     ELSE ar_out.classes]
           /\ ar_pc' = IF ar_in.product = "CDI"
                          /\ \E c \in Components : Component_init(own.args) = "error"
                       THEN "error" ELSE "constructed"
    /\ UNCHANGED <<ar_in, dkvars, mkvars, ccvars, cdvars, ecvars>>

ArNext ==
    \/ MakeArgs
    \/ Construct

SpecArgs == ArInit /\ [][ArNext]_vars

\* the number of (lat, lon) pairs of a request as given: a number is one pair
PairCount(x) == IF x.islist THEN Len(x.val) ELSE 1

\* C12: a request of exactly 1 pair is a point, of exactly 2 pairs a bounding
\* box, of 3 or more pairs a polygon; a latitude/longitude given as a number
\* counts as a list of length 1; every component built for a CDI request has
\* the classification of the CDI.
C12_ClassifiedByPairCount ==
    (/\ ar_pc = "constructed"
     /\ PairCount(ar_in.latitude) = PairCount(ar_in.longitude)) =>
        LET n == PairCount(ar_in.latitude)
        IN  /\ n = 1 => ar_out.sstype = "point"
            /\ n = 2 => ar_out.sstype = "bbox"
            /\ n >= 3 => ar_out.sstype = "polygon"
            /\ ar_out.args.latitude.islist /\ Len(ar_out.args.latitude.val) = n
            /\ ar_in.product = "CDI" =>
                  \A c \in Components : ar_out.comp[c] = ar_out.sstype

\* a CDI given two numbers, and a CDI given two corners
C12_Witness ==
    /\ ar_pc = "constructed"
    /\ ar_in.product = "CDI"
    /\ ~ar_in.latitude.islist /\ ~ar_in.longitude.islist
    /\ ar_out.sstype = "point"
    /\ \A c \in Components : ar_out.comp[c] = "point"

C12_WitnessBBox ==
    /\ ar_pc = "constructed"
    /\ ar_in.product = "CDI"
    /\ PairCount(ar_in.latitude) = 2 /\ PairCount(ar_in.longitude) = 2
    /\ ar_out.sstype = "bbox"
    /\ \A c \in Components : ar_out.comp[c] = "bbox"

\* C21: a request whose latitude and longitude hold different numbers of
\* entries is rejected before anything is built, however the arguments were
\* constructed (singleval included): no index is constructed from it.
C21_Original ==
    ar_pc = "constructed" => PairCount(ar_in.latitude) = PairCount(ar_in.longitude)

(***************************************************************************)
(* Specification of the CDI windows: CDI.__init__ and CDI.process for a    *)
(* point request over start dates around month ends of 28, 29, 30 and 31   *)
(* days and the new year, with end dates after and before the start.  The  *)
(* provider holds a different value at every time step and may lack the    *)
(* step one component feeds into the severity at the normalized start.     *)
(***************************************************************************)
WnStarts ==
    {20200101, 20200105, 20200115, 20200125, 20200131, 20200201, 20200211,
     20200221, 20200229, 20200301, 20200305, 20200311, 20200315, 20200321,
     20200331, 20200401, 20200412, 20200501, 20200511, 20200521, 20200531,
     20210301, 20210305, 20210311}

\* days from start to end, counted forwards and backwards
WnAhead == {0, 9, 25}
WnBack == {5, 45}

WnYears == {2019, 2020, 2021}

WnMonths == {MkDate(y, m, 1) : y \in WnYears, m \in 1..12}
WnDekads == {MkDate(y, m, d) : y \in WnYears, m \in 1..12, d \in {1, 11, 21}}

\* the number of the dekad of t, counted from January 2019
DekadNo(t) == (Year(t) - 2019) * 36 + (Month(t) - 1) * 3 + Day(t) \div 10

\* a value of its own at every time step, in tenths, below and above -1
WnValue(t) == IF DekadNo(t) % 2 = 0 THEN DekadNo(t) ELSE 0 - DekadNo(t)

MonthStart(n) == MkDate(Year(n), Month(n), 1)

\* the dekad boundary before the boundary d
PrevDekad(d) ==
    IF Day(d) > 1 THEN d - 10
    ELSE IF Month(d) > 1 THEN MkDate(Year(d), Month(d) - 1, 21)
    ELSE MkDate(Year(d) - 1, 12, 21)

\* per component, the time step the provider lacks: none, the step the
\* component feeds into the severity at the normalized start, or the month
\* of the start
WnGaps(start) ==
    {[spi |-> {}, sma |-> {}, fpr |-> {}],
     [spi |-> {MinusOneMonth(MonthStart(start))}, sma |-> {}, fpr |-> {}],
     [spi |-> {MonthStart(start)}, sma |-> {}, fpr |-> {}],
     [spi |-> {}, sma |-> {PrevDekad(PrevDekad(assign(start)))}, fpr |-> {}],
     [spi |-> {}, sma |-> {}, fpr |-> {PrevDekad(assign(start))}]}

WnInit ==
    /\ CdBlank
    /\ \E s \in WnStarts :
          /\ \E e \in {PlusDays(s, k) : k \in WnAhead} \cup {MinusDays(s, k) : k \in WnBack} :
                args = [start_date |-> s, end_date |-> e, latitude |-> 1]
          /\ \E g \in WnGaps(s) :
                provider = [spi |-> [t \in WnMonths \ g.spi |-> WnValue(t)],
                            sma |-> [t \in WnDekads \ g.sma |-> WnValue(t)],
                            fpr |-> [t \in WnDekads \ g.fpr |-> WnValue(t)]]
    /\ excluded = [spi |-> FALSE, sma |-> FALSE, fpr |-> FALSE]
    /\ retriever = [c \in Components |-> [y \in WnYears |-> "ok"]]
    /\ DkIdle /\ MkIdle /\ CcIdle /\ EcIdle /\ ArIdle

SpecWindows == WnInit /\ [][CdNext]_vars

\* C22: a request whose start date is later than its end date is rejected:
\* no component window and no canonical grid is built from it and no output
\* is written.
C22_Original ==
    args.start_date > args.end_date => cd_pc = "idle" /\ outfile = "absent"

\* months since year 0 of the month of n
MonthNo(n) == Year(n) * 12 + Month(n) - 1

\* the k-th dekad boundary before the boundary d
RECURSIVE DekadsBefore(_, _)
DekadsBefore(d, k) == IF k = 0 THEN d ELSE DekadsBefore(PrevDekad(d), k - 1)

Last(seq) == seq[Len(seq)]

\* C26 as stated: the grid of a request with start <= end begins at the dekad
\* 3 dekads before the normalized start and ends at the dekad containing end.
C26_Original ==
    (cd_pc # "idle" /\ args.start_date <= args.end_date) =>
        /\ time_dekads # <<>>
        /\ time_dekads[1] = DekadsBefore(assign(args.start_date), 3)
        /\ Last(time_dekads) = assign(args.end_date)

\* C26 as amended: the grid begins at the first day of the month before the
\* month of the requested start, which is 3 to 5 dekads before the normalized
\* start, and ends at the dekad containing end; it is empty when end is
\* before that first day.
C26_GridFromMonthBeforeStart ==
    cd_pc # "idle" =>
        IF MonthNo(args.end_date) >= MonthNo(args.start_date) - 1
        THEN /\ time_dekads # <<>>
             /\ Day(time_dekads[1]) = 1
             /\ MonthNo(time_dekads[1]) = MonthNo(args.start_date) - 1
             /\ \E k \in 3..5 : time_dekads[1] = DekadsBefore(assign(args.start_date), k)
             /\ Last(time_dekads) = assign(args.end_date)
        ELSE time_dekads = <<>>

\* a start in the second dekad of a month: the grid begins 4 dekads earlier
C26_Witness ==
    /\ cd_pc = "constructed"
    /\ args.start_date = 20200412 /\ args.end_date = 20200421
    /\ time_dekads = <<20200301, 20200311, 20200321, 20200401, 20200411, 20200421>>

\* C27: each component's window starts at the normalized start minus its
\* lag: exactly 2 dekads earlier for SMA, exactly 1 dekad earlier for fAPAR,
\* the first day of the month before the requested start for SPI; each start
\* is a dekad boundary and each window ends at the requested end.
C27_Original ==
    (cd_pc # "idle" /\ args.start_date <= args.end_date) =>
        /\ aa.sma.start_date = DekadsBefore(assign(args.start_date), 2)
        /\ aa.fpr.start_date = DekadsBefore(assign(args.start_date), 1)
        /\ Day(aa.spi.start_date) = 1
        /\ MonthNo(aa.spi.start_date) = MonthNo(args.start_date) - 1
        /\ \A c \in Components :
              Day(aa[c].start_date) \in {1, 11, 21} /\ aa[c].end_date = args.end_date

\* the provider of component c holds the time step that feeds grid time t
HasSource(c, t) ==
    IF c = "spi" THEN MonthStart(t) \in DOMAIN provider.spi
    ELSE t \in DOMAIN provider[c]

\* C29: for every canonical time t at or after the normalized start, the
\* lagged source times (t minus 3, 2 and 1 grid positions for SPI, SMA and
\* fAPAR) are on the grid and inside the window of their component, and the
\* severity at t is missing only if the provider lacks a source value.
C29_LaggedSourcesInsideWindows ==
    /\ cd_pc # "idle" =>
          \A i \in DOMAIN time_dekads :
              time_dekads[i] >= assign(args.start_date) =>
                  /\ i > 3
                  /\ aa.spi.start_date <= time_dekads[i - 3]
                  /\ aa.sma.start_date <= time_dekads[i - 2]
                  /\ aa.fpr.start_date <= time_dekads[i - 1]
                  /\ time_dekads[i - 1] <= args.end_date
    /\ cd_pc = "done" =>
          \A i \in DOMAIN time_dekads :
              (time_dekads[i] >= assign(args.start_date) /\ data_ds.CDI[i] = NaN) =>
                  \/ ~HasSource("spi", time_dekads[i - 3])
                  \/ ~HasSource("sma", time_dekads[i - 2])
                  \/ ~HasSource("fpr", time_dekads[i - 1])

\* a start on 1 March after a February of 29 days: every severity from the
\* start on is present
C29_Witness ==
    /\ cd_pc = "done"
    /\ args.start_date = 20200301 /\ args.end_date = 20200326
    /\ time_dekads = <<20200201, 20200211, 20200221, 20200301, 20200311, 20200321>>
    /\ \A i \in 4..6 : data_ds.CDI[i] \in 0..4

\* the same start with the SMA source of the first severity lacking
C29_WitnessGap ==
    /\ cd_pc = "done"
    /\ args.start_date = 20200301
    /\ 20200211 \notin DOMAIN provider.sma
    /\ Len(data_ds.CDI) >= 4
    /\ time_dekads[4] = 20200301
    /\ data_ds.CDI[4] = NaN

(***************************************************************************)
(* Specification of a run of one request whose output file may exist       *)
(* already ("existing"): DROUGHT.run_index looks for the file after the    *)
(* index is constructed and calls download() and process() only when it is *)
(* absent; the viewers call download() and process() without looking.      *)
(***************************************************************************)
RnInit ==
    /\ cd_pc = "idle"
    /\ sstype = "unset"
    /\ aa = [spi |-> NoArgs, sma |-> NoArgs, fpr |-> NoArgs]
    /\ time_dekads = <<>>
    /\ comp_ds = [spi |-> EmptyDA, sma |-> EmptyDA, fpr |-> EmptyDA]
    /\ ds_reindexed = EmptyDS
    /\ ds_shifted = EmptyDS
    /\ data_ds = EmptyDS
    /\ files = [spi |-> {}, sma |-> {}, fpr |-> {}]
    /\ filepaths = [spi |-> {}, sma |-> {}, fpr |-> {}]
    /\ comp_df = [spi |-> <<>>, sma |-> <<>>, fpr |-> <<>>]
    /\ data_df = <<>>
    /\ reads = [spi |-> 0, sma |-> 0, fpr |-> 0]
    /\ outfile \in {"absent", "existing"}
    /\ \E n \in 1..3 :
          args = [start_date |-> 20200105, end_date |-> 20200121, latitude |-> n]
    /\ provider = [spi |-> Series(FaultMonths, 20200101, 0),
                   sma |-> Series(FaultDekads, 20200101, 0),
                   fpr |-> Series(FaultDekads, 20200111, 0)]
    /\ excluded \in ExclChoices
    /\ (args.latitude < 3 => excluded = [spi |-> FALSE, sma |-> FALSE, fpr |-> FALSE])
    /\ retriever \in RetrieverChoices
    /\ DkIdle /\ MkIdle /\ CcIdle /\ EcIdle /\ ArIdle

\* DROUGHT.run_index: os.path.exists(idx.output_file_path) holds, the run
\* logs that the processed file exists and calls nothing
RunIndexExists ==
    /\ cd_pc = "constructed"
    /\ outfile # "absent"
    /\ cd_pc' = "exists"
    /\ UNCHANGED <<cdin, sstype, aa, time_dekads, comp_ds, ds_reindexed, ds_shifted,
                   data_ds, files, filepaths, comp_df, data_df, reads, outfile>>
    /\ UNCHANGED <<dkvars, mkvars, ccvars, ecvars, arvars>>

RnNext ==
    \/ CDI_init
    \/ RunIndexExists
    \/ CDI_download
    \/ SPI_process
    \/ SMA_process
    \/ FPR_process
    \/ CDI_process

SpecRun == RnInit /\ [][RnNext]_vars

\* C23: an output file that exists already is not an error: no step of the
\* run changes it, generate_output included, a run that processes the request
\* all the same ends normally, and a run of the driver that finds the file
\* has downloaded and processed nothing.
C23_ExistingOutputReused ==
    /\ [](cd_pc = "exists" =>
             /\ outfile = "existing"
             /\ \A c \in Components : filepaths[c] = {} /\ reads[c] = 0
             /\ data_df = <<>>)
    /\ []((cd_pc = "fpr" /\ outfile = "existing") => ENABLED CDI_process)
    /\ [][outfile = "existing" => outfile' = "existing"]_vars

\* process() has run to its end on a request whose output file existed
C23_Witness ==
    /\ cd_pc = "done"
    /\ outfile = "existing"
    /\ \A c \in Components : reads[c] = 1

\* the driver found the file
C23_WitnessSkipped ==
    /\ cd_pc = "exists"
    /\ outfile = "existing"

\* the provider's value of component c at time step t, NaN when it lacks it
ProviderAt(c, t) == IF t \in DOMAIN provider[c] THEN provider[c][t] ELSE NaN

InWindow(c, t) == aa[c].start_date <= t /\ t <= aa[c].end_date

\* C25: on the shared grid SMA and fAPAR are missing at every grid time that
\* their series lacks (before the window, or a step the provider lacks): no
\* value is interpolated or carried forward; the value of a component at a
\* grid time its series holds is unchanged, for SPI as well; only SPI has a
\* value at grid times its series does not hold.
C25_OnlySpiForwardFilled ==
    cd_pc = "done" =>
        \A i \in DOMAIN time_dekads :
            LET t == time_dekads[i]
            IN  /\ \A c \in {"sma", "fpr"} :
                      ds_reindexed[c][i] =
                          IF InWindow(c, t) THEN ProviderAt(c, t) ELSE NaN
                /\ \A c \in Components :
                      \A j \in DOMAIN comp_ds[c].time :
                          comp_ds[c].time[j] = t => ds_reindexed[c][i] = comp_ds[c].val[j]

\* the SMA step two dekads before the start is lacking and stays missing on
\* the grid before the value of the next step, while SPI is filled at the
\* second dekad of March
C25_Witness ==
    /\ cd_pc = "done"
    /\ args.start_date = 20200412 /\ args.end_date = 20200421
    /\ 20200321 \notin DOMAIN provider.sma
    /\ ds_reindexed.sma[3] = NaN
    /\ ds_reindexed.sma[4] = WnValue(20200401)
    /\ 20200311 \notin Range(comp_ds.spi.time)
    /\ ds_reindexed.spi[2] = WnValue(20200301)

\* C28: on the shared grid the SPI at each dekad of a month is that month's
\* SPI, missing if the month's value is missing, never the value of another
\* month; the grid holds three consecutive dekads per month, so the SPI
\* behind the severity at a dekad of month M is the SPI of month M-1.
C28_SpiOfTheMonthBefore ==
    cd_pc = "done" =>
        \A i \in DOMAIN time_dekads :
            LET t == time_dekads[i]
            IN  /\ ds_reindexed.spi[i] = ProviderAt("spi", MonthStart(t))
                /\ i > 3 =>
                      /\ MonthNo(time_dekads[i - 3]) = MonthNo(t) - 1
                      /\ Day(time_dekads[i - 3]) = Day(t)
                      /\ ds_shifted.spi[i] =
                            ProviderAt("spi", MinusOneMonth(MonthStart(t)))
                /\ i <= 3 => ds_shifted.spi[i] = NaN

\* the SPI of April is lacking: April is missing at its three dekads and
\* March is not carried into it
C28_Witness ==
    /\ cd_pc = "done"
    /\ args.start_date = 20200412 /\ args.end_date = 20200507
    /\ 20200401 \notin DOMAIN provider.spi
    /\ time_dekads = <<20200301, 20200311, 20200321, 20200401, 20200411, 20200421,
                       20200501>>
    /\ \A i \in 1..3 : ds_reindexed.spi[i] = WnValue(20200301)
    /\ \A i \in 4..6 : ds_reindexed.spi[i] = NaN
    /\ ds_shifted.spi[7] = NaN

\* C30: for every combination of spi_source and sma_source the variables the
\* CDI reads from its components (spi_var, sma_var, fpr_var) are variables
\* of the data_ds of the component classes it has built.
C30_Original ==
    (ar_pc = "constructed" /\ ar_in.product = "CDI") =>
        \A c \in Components : ar_out.vars[c] \in data_vars(ar_out.classes[c])

(***************************************************************************)
(* Specification of a CDI run whose three component pipelines are run as   *)
(* independent tasks: process() of the SPI, SMA and fAPAR component in any *)
(* order, then the classification as a join on the three.                  *)
(***************************************************************************)
\* process() of component c, whichever components have been processed
Task_process(c) ==
    /\ cd_pc = "downloaded"
    /\ reads[c] = 0
    /\ IF process_raises(filepaths[c])
       THEN cd_pc' = "error" /\ UNCHANGED <<comp_ds, comp_df, reads>>
       ELSE cd_pc' = "downloaded" /\ StoreProcessed(c)
    /\ UNCHANGED <<cdin, sstype, aa, time_dekads, ds_reindexed, ds_shifted, data_ds,
                   files, filepaths, data_df, outfile>>
    /\ UNCHANGED <<dkvars, mkvars, ccvars, ecvars, arvars>>

\* the three process() calls have returned: CDI.process goes on (line 886)
Join ==
    /\ cd_pc = "downloaded"
    /\ \A c \in Components : reads[c] = 1
    /\ cd_pc' = "fpr"
    /\ UNCHANGED <<cdin, sstype, aa, time_dekads, comp_ds, ds_reindexed, ds_shifted,
                   data_ds, files, filepaths, comp_df, data_df, reads, outfile>>
    /\ UNCHANGED <<dkvars, mkvars, ccvars, ecvars, arvars>>

OrNext ==
    \/ CDI_init
    \/ CDI_download
    \/ \E c \in Components : Task_process(c)
    \/ Join
    \/ CDI_process

SpecOrder == FtInit /\ [][OrNext]_vars

\* C24: in whichever order the three components are processed, the result
\* of each is the one it computes from the read-only request and its own
\* files alone, as in the order SPI, SMA, fAPAR, so the CDI series is the
\* same; the classification starts only after all three have completed, and
\* a component's step leaves the results of the other two alone.
C24_OrderIndependent ==
    /\ [](\A c \in Components :
             reads[c] = 1 =>
                 /\ comp_ds[c] = component_process(c)
                 /\ comp_df[c] = df_drop_outside(to_dataframe(component_process(c))))
    /\ [](cd_pc \in {"fpr", "done"} => \A c \in Components : reads[c] = 1)
    /\ [](cd_pc = "done" =>
             /\ data_ds.time = time_dekads
             /\ ds_reindexed.spi =
                   da_reindex_ffill(IF sstype = "polygon"
                                    THEN da_where_ne(component_process("spi"),
                                                     OUTSIDE_AREA_SELECTION)
                                    ELSE component_process("spi"), time_dekads).val
             /\ \A i \in DOMAIN time_dekads :
                   data_ds.CDI[i] =
                       calc_cdi(ds_shifted.spi[i], ds_shifted.sma[i], ds_shifted.fpr[i]))
    /\ [][\A c \in Components : reads'[c] = reads[c] => comp_ds'[c] = comp_ds[c]]_vars

\* fAPAR has been processed before SPI and SMA
C24_Witness ==
    /\ cd_pc = "downloaded"
    /\ reads = [spi |-> 0, sma |-> 0, fpr |-> 1]
    /\ comp_ds.fpr.time # <<>>

\* a run in which SPI came last, through to the severity
C24_WitnessDone ==
    /\ cd_pc = "done"
    /\ \A c \in Components : reads[c] = 1
    /\ \E i \in DOMAIN data_ds.CDI : data_ds.CDI[i] \in 0..4

====
